---- MODULE Spec2Model ----
(***************************************************************************)
(* Product / Inventory backend (clean-arch-ddd).                           *)
(*                                                                         *)
(* The specifications of this module:                                      *)
(*   EntitySpec - one in-memory Inventory entity driven by Reserve,        *)
(*                Release and AdjustQuantity (domain/inventory/entity.go)  *)
(*   DomainSpec - the constructors and value operations of the domain      *)
(*                layer applied to inputs drawn from small sets            *)
(*   CreateSpec, AdjustSpec, QuerySpec, ProductSpec - the relational store *)
(*                (products, inventory) and concurrent requests running    *)
(*                the use cases, one database statement per step           *)
(***************************************************************************)
EXTENDS Integers, FiniteSets, Sequences, TLC

VARIABLES call, ent, entLast, products, inventory, nextID, faults, started,
          proc, base, acked

entVars == <<ent, entLast>>
ucVars == <<products, inventory, nextID, faults, started, proc, base, acked>>
vars == <<call, ent, entLast, products, inventory, nextID, faults, started,
          proc, base, acked>>

(***************************************************************************)
(* Bounds                                                                  *)
(***************************************************************************)
\* largest quantity an entity is driven to
MaxQty == 5
\* largest absolute argument handed to Reserve / Release / AdjustQuantity
MaxArg == 6
\* requests started in one behaviour of Spec
MaxCalls == 3
\* injected storage failures in one behaviour of Spec
MaxFaults == 1
\* largest quantity of a row present when the service starts
SeedMaxQty == 2
\* largest amount handed to NewPrice
MaxAmount == 3

(***************************************************************************)
(* Errors (pkg/errors)                                                     *)
(***************************************************************************)
Nil == [nil |-> TRUE]

CodeInternalError == "INTERNAL_ERROR"
CodeInvalidInput == "INVALID_INPUT"
CodeNotFound == "NOT_FOUND"
CodeConflict == "CONFLICT"
CodeProductNotFound == "PRODUCT_NOT_FOUND"
CodeInvalidProductID == "INVALID_PRODUCT_ID"
CodeInventoryNotFound == "INVENTORY_NOT_FOUND"
CodeInventoryExists == "INVENTORY_ALREADY_EXISTS"
CodeInsufficientStock == "INSUFFICIENT_STOCK"
CodeInvalidQuantity == "INVALID_QUANTITY"
CodeInvalidAdjustment == "INVALID_ADJUSTMENT"
CodeProductAlreadyExists == "PRODUCT_ALREADY_EXISTS"
CodeInvalidProductName == "INVALID_PRODUCT_NAME"
CodeInvalidPrice == "INVALID_PRICE"
CodeDatabaseError == "DATABASE_ERROR"
CodeDatabaseConnection == "DATABASE_CONNECTION_ERROR"

\* errors.New of the standard library: an error that is not an *AppError
StdError(message) ==
    [app |-> FALSE, code |-> "", msg |-> message, noRows |-> FALSE]

\* New: an *AppError with a code and a message, wrapping nothing
New(code, message) ==
    [app |-> TRUE, code |-> code, msg |-> message, noRows |-> FALSE]

\* Is: true only of an *AppError carrying the code
Is(err, code) ==
    IF err = Nil THEN FALSE
    ELSE IF err.app THEN err.code = code
    ELSE FALSE

\* GetCode: the code of an *AppError, INTERNAL_ERROR for any other error
GetCode(err) ==
    IF err = Nil THEN ""
    ELSE IF err.app THEN err.code
    ELSE CodeInternalError

\* ErrorCodeRegistry.GetHTTPStatus over the codes of registerDefaultCodes
RegistryHTTPStatus(code) ==
    CASE code = CodeInternalError -> 500
      [] code = CodeInvalidInput -> 400
      [] code = CodeNotFound -> 404
      [] code = CodeConflict -> 409
      [] code = CodeProductNotFound -> 404
      [] code = CodeProductAlreadyExists -> 409
      [] code = CodeInvalidProductID -> 400
      [] code = CodeInvalidProductName -> 400
      [] code = CodeInvalidPrice -> 400
      [] code = CodeInventoryNotFound -> 404
      [] code = CodeInventoryExists -> 409
      [] code = CodeInsufficientStock -> 400
      [] code = CodeInvalidQuantity -> 400
      [] code = CodeInvalidAdjustment -> 400
      [] code = CodeDatabaseError -> 500
      [] code = CodeDatabaseConnection -> 503
      [] OTHER -> 500

\* GetHTTPStatus: the status an *AppError got from the registry when it was
\* built, 500 for nil and for any other error
GetHTTPStatus(err) ==
    IF err = Nil THEN 500
    ELSE IF err.app THEN RegistryHTTPStatus(err.code)
    ELSE 500

ErrInventoryNotFound == New(CodeInventoryNotFound, "inventory not found")
ErrInventoryExists ==
    New(CodeInventoryExists, "inventory already exists for this product")
ErrInsufficientStock ==
    New(CodeInsufficientStock, "insufficient stock available")
ErrInvalidQuantity == New(CodeInvalidQuantity, "quantity must be non-negative")
ErrInvalidAdjustment == New(CodeInvalidAdjustment, "invalid adjustment amount")
ErrProductNotFound == New(CodeProductNotFound, "product not found")

(***************************************************************************)
(* Inventory entity (internal/domain/inventory/entity.go)                  *)
(***************************************************************************)
\* result of a method with an error return: the entity after the call
Ret(i, e) == [inv |-> i, err |-> e]

\* NewInventory accepting a negative quantity
NewInventoryAnyQuantity(id, productID, quantity, location) ==
    IF id = "" THEN Ret(Nil, StdError("inventory id cannot be empty"))
    ELSE IF productID = ""
    THEN Ret(Nil, StdError("product id cannot be empty"))
    ELSE Ret([id |-> id, productID |-> productID, quantity |-> quantity,
              reservedQuantity |-> 0, location |-> location], Nil)

NewInventory(id, productID, quantity, location) ==
    IF id = "" THEN Ret(Nil, StdError("inventory id cannot be empty"))
    ELSE IF productID = ""
    THEN Ret(Nil, StdError("product id cannot be empty"))
    ELSE IF quantity < 0 THEN Ret(Nil, ErrInvalidQuantity)
    ELSE Ret([id |-> id, productID |-> productID, quantity |-> quantity,
              reservedQuantity |-> 0, location |-> location], Nil)

ReconstructInventory(id, productID, quantity, reservedQuantity, location) ==
    [id |-> id, productID |-> productID, quantity |-> quantity,
     reservedQuantity |-> reservedQuantity, location |-> location]

AvailableQuantity(i) == i.quantity - i.reservedQuantity

\* Reserve measuring the request against the whole stock
ReserveIgnoresReserved(i, quantity) ==
    IF quantity <= 0 THEN Ret(i, ErrInvalidQuantity)
    ELSE IF i.quantity < quantity THEN Ret(i, ErrInsufficientStock)
    ELSE Ret([i EXCEPT !.reservedQuantity = @ + quantity], Nil)

Reserve(i, quantity) ==
    IF quantity <= 0 THEN Ret(i, ErrInvalidQuantity)
    ELSE IF AvailableQuantity(i) < quantity THEN Ret(i, ErrInsufficientStock)
    ELSE Ret([i EXCEPT !.reservedQuantity = @ + quantity], Nil)

\* Release with the decrement committed before the bound is checked
ReleaseCommitFirst(i, quantity) ==
    IF quantity <= 0 THEN Ret(i, ErrInvalidQuantity)
    ELSE IF i.reservedQuantity < quantity
    THEN Ret([i EXCEPT !.reservedQuantity = @ - quantity],
             StdError("cannot release more than reserved quantity"))
    ELSE Ret([i EXCEPT !.reservedQuantity = @ - quantity], Nil)

\* Release refusing to release everything that is reserved
ReleaseOffByOne(i, quantity) ==
    IF quantity <= 0 THEN Ret(i, ErrInvalidQuantity)
    ELSE IF i.reservedQuantity <= quantity
    THEN Ret(i, StdError("cannot release more than reserved quantity"))
    ELSE Ret([i EXCEPT !.reservedQuantity = @ - quantity], Nil)

\* Release without the check of its argument's sign
ReleaseNoValidation(i, quantity) ==
    IF i.reservedQuantity < quantity
    THEN Ret(i, StdError("cannot release more than reserved quantity"))
    ELSE Ret([i EXCEPT !.reservedQuantity = @ - quantity], Nil)

Release(i, quantity) ==
    IF quantity <= 0 THEN Ret(i, ErrInvalidQuantity)
    ELSE IF i.reservedQuantity < quantity
    THEN Ret(i, StdError("cannot release more than reserved quantity"))
    ELSE Ret([i EXCEPT !.reservedQuantity = @ - quantity], Nil)

\* AdjustQuantity without the reserved-quantity floor
AdjustQuantityNoFloor(i, adjustment) ==
    LET newQuantity == i.quantity + adjustment IN
    IF newQuantity < 0 THEN Ret(i, ErrInvalidQuantity)
    ELSE Ret([i EXCEPT !.quantity = newQuantity], Nil)

\* AdjustQuantity rejecting an adjustment down to exactly the reserved amount
AdjustQuantityOffByOne(i, adjustment) ==
    LET newQuantity == i.quantity + adjustment IN
    IF newQuantity < 0 THEN Ret(i, ErrInvalidQuantity)
    ELSE IF newQuantity <= i.reservedQuantity
    THEN Ret(i, StdError("cannot adjust quantity below reserved amount"))
    ELSE Ret([i EXCEPT !.quantity = newQuantity], Nil)

AdjustQuantity(i, adjustment) ==
    LET newQuantity == i.quantity + adjustment IN
    IF newQuantity < 0 THEN Ret(i, ErrInvalidQuantity)
    ELSE IF newQuantity < i.reservedQuantity
    THEN Ret(i, StdError("cannot adjust quantity below reserved amount"))
    ELSE Ret([i EXCEPT !.quantity = newQuantity], Nil)

(***************************************************************************)
(* Price value object and Product entity (internal/domain/product).        *)
(* Amounts are float64 in the source; the model draws them from the        *)
(* integers, which float64 represents and adds exactly                     *)
(***************************************************************************)
\* Price{}: the zero value returned next to an error
ZeroPrice == [amount |-> 0, currency |-> ""]

\* (Price, error) of a constructor or operation
PRet(p, e) == [price |-> p, err |-> e]

\* len(currency) counts the bytes of the string; the currencies of the
\* model are ASCII, one byte per character
NewPrice(amount, currency) ==
    IF amount < 0
    THEN PRet(ZeroPrice, StdError("price amount cannot be negative"))
    ELSE IF currency = ""
    THEN PRet(ZeroPrice, StdError("currency cannot be empty"))
    ELSE IF Len(currency) # 3
    THEN PRet(ZeroPrice, StdError("currency must be a 3-letter ISO code"))
    ELSE PRet([amount |-> amount, currency |-> currency], Nil)

Amount(p) == p.amount

Currency(p) == p.currency

Add(p, other) ==
    IF p.currency # other.currency
    THEN PRet(ZeroPrice,
              StdError("cannot add prices with different currencies"))
    ELSE NewPrice(p.amount + other.amount, p.currency)

Subtract(p, other) ==
    IF p.currency # other.currency
    THEN PRet(ZeroPrice,
              StdError("cannot subtract prices with different currencies"))
    ELSE NewPrice(p.amount - other.amount, p.currency)

\* NewProduct: (product, error); the timestamps are left out
NewProduct(id, name, price) ==
    IF id = ""
    THEN [prod |-> Nil,
          err |-> New(CodeInvalidProductID, "product id cannot be empty")]
    ELSE IF name = ""
    THEN [prod |-> Nil,
          err |-> New(CodeInvalidProductName, "product name cannot be empty")]
    ELSE [prod |-> [id |-> id, name |-> name, price |-> price], err |-> Nil]

\* UpdateName storing whatever name it is given
UpdateNameNoValidation(p, name) ==
    [prod |-> [p EXCEPT !.name = name], err |-> Nil]

UpdateName(p, name) ==
    IF name = ""
    THEN [prod |-> p,
          err |-> New(CodeInvalidProductName, "product name cannot be empty")]
    ELSE [prod |-> [p EXCEPT !.name = name], err |-> Nil]

UpdatePrice(p, price) ==
    [prod |-> [p EXCEPT !.price = price], err |-> Nil]

(***************************************************************************)
(* Error wrapping (pkg/errors)                                             *)
(***************************************************************************)
\* the substrings WrapDatabaseError looks for that an error text contains
TextHas(text) ==
    CASE text = "dial tcp: connection refused" -> {"dial tcp", "connection"}
      [] text = "pq: duplicate key value violates unique constraint"
           -> {"duplicate key", "unique constraint",
               "violates unique constraint"}
      [] text = "pq: insert on table violates foreign key constraint"
           -> {"foreign key constraint", "violates foreign key constraint"}
      [] text = "Database connection error" -> {"connection"}
      [] text = "connection timeout" -> {"connection", "timeout"}
      [] text = "connection lost: sql: no rows in result set"
           -> {"connection"}
      [] text = "duplicate key value breaks foreign key constraint on connection"
           -> {"duplicate key", "foreign key constraint", "connection"}
      [] text = "violates foreign key constraint: network timeout"
           -> {"foreign key constraint", "violates foreign key constraint",
               "network", "timeout"}
      [] OTHER -> {}

containsAny(s, substrings) == TextHas(s) \cap substrings # {}

\* AppError.Error: the message (every error of the model has one)
ErrorText(e) == IF e.msg # "" THEN e.msg ELSE e.code

\* Wrap: a new *AppError around err; errors.Is still sees the wrapped chain
Wrap(err, code, message) ==
    IF err = Nil THEN Nil
    ELSE [app |-> TRUE, code |-> code, msg |-> message, noRows |-> err.noRows]

\* WithCode: Wrap keeping the text of err as the message
WithCode(err, code) ==
    IF err = Nil THEN Nil
    ELSE [app |-> TRUE, code |-> code, msg |-> ErrorText(err),
          noRows |-> err.noRows]

\* WrapDatabaseError looking for a connection failure before the
\* constraint violations
WrapDatabaseErrorConnectionFirst(err) ==
    IF err = Nil THEN Nil
    ELSE IF err.noRows THEN WithCode(err, CodeNotFound)
    ELSE IF containsAny(ErrorText(err),
                {"connection", "network", "timeout", "dial tcp"})
    THEN Wrap(err, CodeDatabaseConnection, "Database connection error")
    ELSE IF containsAny(ErrorText(err),
                {"duplicate key", "unique constraint",
                 "violates unique constraint"})
    THEN Wrap(err, CodeConflict, "Resource already exists")
    ELSE IF containsAny(ErrorText(err),
                {"foreign key constraint", "violates foreign key constraint"})
    THEN Wrap(err, CodeInvalidInput, "Referenced resource does not exist")
    ELSE Wrap(err, CodeDatabaseError, "Database operation failed")

WrapDatabaseError(err) ==
    IF err = Nil THEN Nil
    ELSE IF err.noRows THEN WithCode(err, CodeNotFound)
    ELSE IF containsAny(ErrorText(err),
                {"duplicate key", "unique constraint",
                 "violates unique constraint"})
    THEN Wrap(err, CodeConflict, "Resource already exists")
    ELSE IF containsAny(ErrorText(err),
                {"foreign key constraint", "violates foreign key constraint"})
    THEN Wrap(err, CodeInvalidInput, "Referenced resource does not exist")
    ELSE IF containsAny(ErrorText(err),
                {"connection", "network", "timeout", "dial tcp"})
    THEN Wrap(err, CodeDatabaseConnection, "Database connection error")
    ELSE Wrap(err, CodeDatabaseError, "Database operation failed")

(***************************************************************************)
(* The relational store: tables products and inventory, and the errors the *)
(* driver returns                                                          *)
(***************************************************************************)
SqlErrNoRows ==
    [app |-> FALSE, code |-> "", msg |-> "sql: no rows in result set",
     noRows |-> TRUE]
PqConnection == StdError("dial tcp: connection refused")
PqUniqueViolation ==
    StdError("pq: duplicate key value violates unique constraint")
PqForeignKeyViolation ==
    StdError("pq: insert on table violates foreign key constraint")
PqCheckViolation ==
    StdError("pq: new row for relation violates check constraint")

\* result of a statement: the table afterwards, the row read, the error
Stmt(t, r, e) == [table |-> t, row |-> r, err |-> e]

\* the three CHECK constraints of the inventory table
CheckConstraints(row) ==
    /\ row.quantity >= 0
    /\ row.reservedQuantity >= 0
    /\ row.reservedQuantity <= row.quantity

\* SELECT ... FROM products WHERE id = $1
GetProductByID(prods, id) ==
    IF \E r \in prods : r.id = id
    THEN Stmt(prods, CHOOSE r \in prods : r.id = id, Nil)
    ELSE Stmt(prods, Nil, SqlErrNoRows)

\* INSERT INTO products: PRIMARY KEY (id), CHECK (price_amount >= 0)
CreateProduct(prods, row) ==
    IF row.priceAmount < 0 THEN Stmt(prods, Nil, PqCheckViolation)
    ELSE IF \E r \in prods : r.id = row.id
    THEN Stmt(prods, Nil, PqUniqueViolation)
    ELSE Stmt(prods \cup {row}, Nil, Nil)

\* SELECT * FROM inventory WHERE product_id = $1
GetInventoryByProductID(inv, productID) ==
    IF \E r \in inv : r.productID = productID
    THEN Stmt(inv, CHOOSE r \in inv : r.productID = productID, Nil)
    ELSE Stmt(inv, Nil, SqlErrNoRows)

\* INSERT INTO inventory without the UNIQUE constraint on product_id
CreateInventoryNoUnique(inv, prods, row) ==
    IF ~CheckConstraints(row) THEN Stmt(inv, Nil, PqCheckViolation)
    ELSE IF \E r \in inv : r.id = row.id
    THEN Stmt(inv, Nil, PqUniqueViolation)
    ELSE IF ~(\E q \in prods : q.id = row.productID)
    THEN Stmt(inv, Nil, PqForeignKeyViolation)
    ELSE Stmt(inv \cup {row}, Nil, Nil)

\* INSERT INTO inventory without the FOREIGN KEY on product_id
CreateInventoryNoForeignKey(inv, prods, row) ==
    IF ~CheckConstraints(row) THEN Stmt(inv, Nil, PqCheckViolation)
    ELSE IF \E r \in inv : r.id = row.id \/ r.productID = row.productID
    THEN Stmt(inv, Nil, PqUniqueViolation)
    ELSE Stmt(inv \cup {row}, Nil, Nil)

\* INSERT INTO inventory: CHECK constraints, PRIMARY KEY (id),
\* UNIQUE (product_id), FOREIGN KEY (product_id) REFERENCES products
CreateInventory(inv, prods, row) ==
    IF ~CheckConstraints(row) THEN Stmt(inv, Nil, PqCheckViolation)
    ELSE IF \E r \in inv : r.id = row.id \/ r.productID = row.productID
    THEN Stmt(inv, Nil, PqUniqueViolation)
    ELSE IF ~(\E q \in prods : q.id = row.productID)
    THEN Stmt(inv, Nil, PqForeignKeyViolation)
    ELSE Stmt(inv \cup {row}, Nil, Nil)

\* the increment on a table without the CHECK constraints
AdjustInventoryQuantityUnchecked(inv, productID, delta) ==
    LET upd(r) == IF r.productID = productID
                  THEN [r EXCEPT !.quantity = @ + delta] ELSE r
    IN Stmt({upd(r) : r \in inv}, Nil, Nil)

\* UPDATE inventory SET quantity = quantity + $2 WHERE product_id = $1
\* (no matching row: nothing is updated and no error is returned)
AdjustInventoryQuantity(inv, productID, delta) ==
    LET upd(r) == IF r.productID = productID
                  THEN [r EXCEPT !.quantity = @ + delta] ELSE r
        after == {upd(r) : r \in inv}
    IN IF \A r \in after : CheckConstraints(r)
       THEN Stmt(after, Nil, Nil)
       ELSE Stmt(inv, Nil, PqCheckViolation)

\* UPDATE inventory SET quantity = $2, reserved_quantity = $3, location = $4
\* WHERE product_id = $1: the row, if there is one, gets the values given
UpdateInventory(inv, params) ==
    LET upd(r) == IF r.productID = params.productID
                  THEN [r EXCEPT !.quantity = params.quantity,
                                 !.reservedQuantity = params.reservedQuantity,
                                 !.location = params.location]
                  ELSE r
        after == {upd(r) : r \in inv}
    IN IF \A r \in after : CheckConstraints(r)
       THEN Stmt(after, Nil, Nil)
       ELSE Stmt(inv, Nil, PqCheckViolation)

\* DELETE FROM inventory WHERE product_id = $1
DeleteInventory(inv, productID) == {r \in inv : r.productID # productID}

(***************************************************************************)
(* Repositories (infrastructure/persistence).  fault is the driver error   *)
(* of a statement that could not run, or Nil                               *)
(***************************************************************************)
\* (value, error) of a repository or use-case call
Res(v, e) == [val |-> v, err |-> e]

\* int32(x): the conversion of a Go int to the type of the INTEGER columns
\* keeps the low bits and reads them as a signed number.  The model keeps
\* 5 bits where the source keeps 32, so 32 plays the part of 2^32
Int32(x) == ((x + 16) % 32) - 16

\* ProductRepositoryImpl.GetByID
ProductGetByID(prods, id, fault) ==
    LET st == IF fault # Nil THEN Stmt(prods, Nil, fault)
              ELSE GetProductByID(prods, id)
    IN IF st.err # Nil
       THEN IF st.err.noRows THEN Res(Nil, Nil)
            ELSE Res(Nil, WrapDatabaseError(st.err))
       ELSE Res(st.row, Nil)

\* ProductRepositoryImpl.Create; the amount travels as the decimal text of
\* the float, which is exact for the integers of the model
ProductRepoCreate(prods, prod, fault) ==
    LET params == [id |-> prod.id, name |-> prod.name,
                   priceAmount |-> Amount(prod.price),
                   priceCurrency |-> Currency(prod.price)]
        st == IF fault # Nil THEN Stmt(prods, Nil, fault)
              ELSE CreateProduct(prods, params)
    IN [table |-> st.table, err |-> WrapDatabaseError(st.err)]

\* InventoryRepositoryImpl.GetByProductID
GetByProductID(inv, productID, fault) ==
    LET st == IF fault # Nil THEN Stmt(inv, Nil, fault)
              ELSE GetInventoryByProductID(inv, productID)
    IN IF st.err # Nil
       THEN IF st.err.noRows THEN Res(Nil, Nil)
            ELSE Res(Nil, WrapDatabaseError(st.err))
       ELSE Res(ReconstructInventory(st.row.id, st.row.productID,
                    st.row.quantity, st.row.reservedQuantity,
                    st.row.location), Nil)

\* InventoryRepositoryImpl.Create
RepoCreate(inv, prods, entity, fault) ==
    LET params == [entity EXCEPT
                      !.quantity = Int32(entity.quantity),
                      !.reservedQuantity = Int32(entity.reservedQuantity)]
        st == IF fault # Nil THEN Stmt(inv, Nil, fault)
              ELSE CreateInventory(inv, prods, params)
    IN [table |-> st.table, err |-> WrapDatabaseError(st.err)]

\* InventoryRepositoryImpl.AdjustStock
AdjustStock(inv, productID, adjustment, fault) ==
    LET st == IF fault # Nil THEN Stmt(inv, Nil, fault)
              ELSE AdjustInventoryQuantity(inv, productID,
                                           Int32(adjustment))
    IN [table |-> st.table, err |-> WrapDatabaseError(st.err)]

\* InventoryRepositoryImpl.Update
RepoUpdate(inv, entity, fault) ==
    LET params == [productID |-> entity.productID,
                   quantity |-> Int32(entity.quantity),
                   reservedQuantity |-> Int32(entity.reservedQuantity),
                   location |-> entity.location]
        st == IF fault # Nil THEN Stmt(inv, Nil, fault)
              ELSE UpdateInventory(inv, params)
    IN [table |-> st.table, err |-> WrapDatabaseError(st.err)]

(***************************************************************************)
(* Requests.  A request record holds the position of one use-case call     *)
(* and its local variables; calls lists the store operations it has made   *)
(***************************************************************************)
Idle ==
    [op |-> "idle", pc |-> "idle", productID |-> "", arg |-> 0,
     withInv |-> FALSE, prod |-> Nil, perr |-> Nil, inv |-> Nil,
     lookup |-> Nil, out |-> Nil, err |-> Nil, panicked |-> FALSE,
     calls |-> {}, seen |-> Nil, location |-> "", faulty |-> FALSE,
     seenProd |-> Nil, name |-> "", currency |-> "", creates |-> 0]

\* return (out, err) to the caller
Return(r, out, err) == [r EXCEPT !.pc = "done", !.out = out, !.err = err]

Called(r, what) == [r EXCEPT !.calls = @ \cup {what}]

(***************************************************************************)
(* Product query used by the inventory module                              *)
(* (application/product/query/get.go, built without inventory lookup)      *)
(***************************************************************************)
ProductOutput(row) ==
    [id |-> row.id, name |-> row.name, priceAmount |-> row.priceAmount,
     priceCurrency |-> row.priceCurrency, hasInventory |-> FALSE,
     stockQuantity |-> 0, availableQuantity |-> 0]

\* the product read made without looking at the id
GetProductQueryNoValidation(prods, productID, fault) ==
    LET got == ProductGetByID(prods, productID, fault)
    IN IF got.err # Nil THEN Res(Nil, WrapDatabaseError(got.err))
       ELSE IF got.val = Nil THEN Res(Nil, ErrProductNotFound)
       ELSE Res(ProductOutput(got.val), Nil)

\* GetProductQuery.Execute up to the base output
GetProductQuery(prods, productID, fault) ==
    IF productID = ""
    THEN Res(Nil, New(CodeInvalidProductID, "product ID is required"))
    ELSE LET got == ProductGetByID(prods, productID, fault)
         IN IF got.err # Nil THEN Res(Nil, WrapDatabaseError(got.err))
            ELSE IF got.val = Nil THEN Res(Nil, ErrProductNotFound)
            ELSE Res(ProductOutput(got.val), Nil)

(***************************************************************************)
(* CreateProductCommand.Execute (application/product/command/create.go)    *)
(***************************************************************************)
CreateProductOutput(prod) ==
    [id |-> prod.id, name |-> prod.name,
     priceAmount |-> Amount(prod.price),
     priceCurrency |-> Currency(prod.price)]

\* Execute returning the created view although the store refused the row
CreateProductCommandIgnoresStore(r, prods, id, fault) ==
    IF r.name = ""
    THEN [table |-> prods,
          req |-> Return(r, Nil, New(CodeInvalidProductName,
                                     "product name is required"))]
    ELSE LET pr == NewPrice(r.arg, r.currency)
         IN IF pr.err # Nil
            THEN [table |-> prods, req |-> Return(r, Nil, pr.err)]
            ELSE LET n == NewProduct(id, r.name, pr.price)
                 IN IF n.err # Nil
                    THEN [table |-> prods, req |-> Return(r, Nil, n.err)]
                    ELSE LET w == ProductRepoCreate(prods, n.prod, fault)
                             c == [Called(r, "products.Create")
                                     EXCEPT !.creates = @ + 1]
                         IN [table |-> w.table,
                             req |-> Return(c, CreateProductOutput(n.prod),
                                            Nil)]

\* lines 41-75: validate, build the price and the product, save, return
CreateProductCommand(r, prods, id, fault) ==
    IF r.name = ""
    THEN [table |-> prods,
          req |-> Return(r, Nil, New(CodeInvalidProductName,
                                     "product name is required"))]
    ELSE LET pr == NewPrice(r.arg, r.currency)
         IN IF pr.err # Nil
            THEN [table |-> prods, req |-> Return(r, Nil, pr.err)]
            ELSE LET n == NewProduct(id, r.name, pr.price)
                 IN IF n.err # Nil
                    THEN [table |-> prods, req |-> Return(r, Nil, n.err)]
                    ELSE LET w == ProductRepoCreate(prods, n.prod, fault)
                             c == [Called(r, "products.Create")
                                     EXCEPT !.creates = @ + 1]
                         IN [table |-> w.table,
                             req |-> IF w.err # Nil
                                     THEN Return(c, Nil,
                                              WrapDatabaseError(w.err))
                                     ELSE Return(c,
                                              CreateProductOutput(n.prod),
                                              Nil)]

(***************************************************************************)
(* CreateInventoryCommand.Execute (application/inventory/command/create.go)*)
(***************************************************************************)
\* product lookup whose error is handed back without the not-found mapping
CreateInventoryVerifyNoMapping(r, prods, fault) ==
    IF r.productID = ""
    THEN Return(r, Nil, New(CodeInvalidInput, "product ID is required"))
    ELSE IF r.arg < 0 THEN Return(r, Nil, ErrInvalidQuantity)
    ELSE LET p == GetProductQuery(prods, r.productID, fault)
             c == Called(r, "products.GetByID")
         IN IF p.err # Nil
            THEN Return([c EXCEPT !.perr = p.err], Nil, p.err)
            ELSE [c EXCEPT !.prod = p.val, !.pc = "exists"]

\* lines 56-71: validate the input and verify the product exists
CreateInventoryVerify(r, prods, fault) ==
    IF r.productID = ""
    THEN Return(r, Nil, New(CodeInvalidInput, "product ID is required"))
    ELSE IF r.arg < 0 THEN Return(r, Nil, ErrInvalidQuantity)
    ELSE LET p == GetProductQuery(prods, r.productID, fault)
             c == Called(r, "products.GetByID")
         IN IF p.err # Nil
            THEN IF Is(p.err, CodeProductNotFound)
                 THEN Return([c EXCEPT !.perr = p.err], Nil,
                        New(CodeProductNotFound,
                            "cannot create inventory: product not found"))
                 ELSE Return([c EXCEPT !.perr = p.err], Nil, p.err)
            ELSE [c EXCEPT !.prod = p.val, !.pc = "exists"]

\* existence check that lets the call go on when a row is found
CreateInventoryCheckIgnored(r, inv, id, fault) ==
    LET got == GetByProductID(inv, r.productID, fault)
        c == Called(r, "inventory.GetByProductID")
    IN IF got.err # Nil THEN Return(c, Nil, WrapDatabaseError(got.err))
       ELSE LET n == NewInventory(id, r.productID, r.arg, r.location)
            IN IF n.err # Nil THEN Return(c, Nil, n.err)
               ELSE [c EXCEPT !.inv = n.inv, !.pc = "create"]

\* lines 73-91: look for an existing row, then build the entity
CreateInventoryCheck(r, inv, id, fault) ==
    LET got == GetByProductID(inv, r.productID, fault)
        c == Called(r, "inventory.GetByProductID")
    IN IF got.err # Nil THEN Return(c, Nil, WrapDatabaseError(got.err))
       ELSE IF got.val # Nil THEN Return(c, Nil, ErrInventoryExists)
       ELSE LET n == NewInventory(id, r.productID, r.arg, r.location)
            IN IF n.err # Nil THEN Return(c, Nil, n.err)
               ELSE [c EXCEPT !.inv = n.inv, !.pc = "create"]

CreateInventoryOutput(i, productName) ==
    [id |-> i.id, productID |-> i.productID, productName |-> productName,
     quantity |-> i.quantity, reservedQuantity |-> i.reservedQuantity,
     availableQuantity |-> AvailableQuantity(i), location |-> i.location]

\* lines 93-110: save the entity and return the output
CreateInventorySave(r, inv, prods, fault) ==
    LET w == RepoCreate(inv, prods, r.inv, fault)
        c == Called(r, "inventory.Create")
    IN [table |-> w.table,
        req |-> IF w.err # Nil THEN Return(c, Nil, WrapDatabaseError(w.err))
                ELSE Return(c, CreateInventoryOutput(r.inv, r.prod.name),
                            Nil)]

(***************************************************************************)
(* GetInventoryQuery.Execute (application/inventory/query)                 *)
(***************************************************************************)
\* the read made without looking at the productID
GetInventoryLoadNoValidation(r, inv, fault) ==
    LET got == GetByProductID(inv, r.productID, fault)
        c == Called(r, "inventory.GetByProductID")
    IN IF got.err # Nil THEN Return(c, Nil, WrapDatabaseError(got.err))
       ELSE IF got.val = Nil THEN Return(c, Nil, ErrInventoryNotFound)
       ELSE [c EXCEPT !.inv = got.val, !.pc = "enrich"]

\* lines 46-60: validate, read the inventory row
GetInventoryLoad(r, inv, fault) ==
    IF r.productID = ""
    THEN Return(r, Nil, New(CodeInvalidInput, "product ID is required"))
    ELSE LET got == GetByProductID(inv, r.productID, fault)
             c == Called(r, "inventory.GetByProductID")
         IN IF got.err # Nil THEN Return(c, Nil, WrapDatabaseError(got.err))
            ELSE IF got.val = Nil THEN Return(c, Nil, ErrInventoryNotFound)
            ELSE [c EXCEPT !.inv = got.val, !.pc = "enrich"]

GetInventoryOutput(i, name, price, currency) ==
    [id |-> i.id, productID |-> i.productID, productName |-> name,
     productPrice |-> price, productCurrency |-> currency,
     quantity |-> i.quantity, reservedQuantity |-> i.reservedQuantity,
     availableQuantity |-> AvailableQuantity(i), location |-> i.location]

\* enrichment that fails the query whenever the product lookup fails
GetInventoryEnrichStrict(r, prods, fault) ==
    LET p == GetProductQuery(prods, r.productID, fault)
        c == Called(r, "products.GetByID")
    IN IF p.err # Nil
       THEN Return([c EXCEPT !.perr = p.err], Nil, p.err)
       ELSE Return([c EXCEPT !.prod = p.val],
                GetInventoryOutput(r.inv, p.val.name, p.val.priceAmount,
                                   p.val.priceCurrency), Nil)

\* lines 62-97: enrich with the product, degrade when it was deleted
GetInventoryEnrich(r, prods, fault) ==
    LET p == GetProductQuery(prods, r.productID, fault)
        c == Called(r, "products.GetByID")
    IN IF p.err # Nil
       THEN IF Is(p.err, CodeProductNotFound)
            THEN Return([c EXCEPT !.perr = p.err],
                     GetInventoryOutput(r.inv, "Unknown (Product Deleted)",
                                        0, ""), Nil)
            ELSE Return([c EXCEPT !.perr = p.err], Nil, p.err)
       ELSE Return([c EXCEPT !.prod = p.val],
                GetInventoryOutput(r.inv, p.val.name, p.val.priceAmount,
                                   p.val.priceCurrency), Nil)

(***************************************************************************)
(* AdjustInventoryCommand.Execute (application/inventory/command)          *)
(***************************************************************************)
\* validation that looks at the adjustment before the productID
AdjustInventoryVerifyZeroFirst(r, prods, fault) ==
    IF r.arg = 0
    THEN Return(r, Nil,
             New(CodeInvalidAdjustment, "adjustment cannot be zero"))
    ELSE IF r.productID = ""
    THEN Return(r, Nil, New(CodeInvalidInput, "product ID is required"))
    ELSE LET p == GetProductQuery(prods, r.productID, fault)
             c == Called(r, "products.GetByID")
         IN IF p.err # Nil
            THEN IF Is(p.err, CodeProductNotFound)
                 THEN Return([c EXCEPT !.perr = p.err], Nil,
                        New(CodeProductNotFound,
                            "cannot adjust inventory: product not found"))
                 ELSE Return([c EXCEPT !.perr = p.err], Nil, p.err)
            ELSE [c EXCEPT !.prod = p.val, !.pc = "load"]

\* lines 54-69: validate the input and verify the product exists
AdjustInventoryVerify(r, prods, fault) ==
    IF r.productID = ""
    THEN Return(r, Nil, New(CodeInvalidInput, "product ID is required"))
    ELSE IF r.arg = 0
    THEN Return(r, Nil,
             New(CodeInvalidAdjustment, "adjustment cannot be zero"))
    ELSE LET p == GetProductQuery(prods, r.productID, fault)
             c == Called(r, "products.GetByID")
         IN IF p.err # Nil
            THEN IF Is(p.err, CodeProductNotFound)
                 THEN Return([c EXCEPT !.perr = p.err], Nil,
                        New(CodeProductNotFound,
                            "cannot adjust inventory: product not found"))
                 ELSE Return([c EXCEPT !.perr = p.err], Nil, p.err)
            ELSE [c EXCEPT !.prod = p.val, !.pc = "load"]

\* lines 71-85: read the row and validate the adjustment on the copy
AdjustInventoryLoad(r, inv, fault) ==
    LET got == GetByProductID(inv, r.productID, fault)
        c == Called(r, "inventory.GetByProductID")
    IN IF got.err # Nil THEN Return(c, Nil, WrapDatabaseError(got.err))
       ELSE IF got.val = Nil THEN Return(c, Nil, ErrInventoryNotFound)
       ELSE LET a == AdjustQuantity(got.val, r.arg)
            IN IF a.err # Nil THEN Return([c EXCEPT !.inv = a.inv], Nil, a.err)
               ELSE [c EXCEPT !.inv = a.inv, !.pc = "apply"]

\* lines 87-92: the atomic increment in the store
AdjustInventoryApply(r, inv, fault) ==
    LET w == AdjustStock(inv, r.productID, r.arg, fault)
        c == Called(r, "inventory.AdjustStock")
    IN [table |-> w.table,
        req |-> IF w.err # Nil THEN Return(c, Nil, WrapDatabaseError(w.err))
                ELSE [c EXCEPT !.pc = "reread"]]

AdjustInventoryOutput(i, productName) ==
    [id |-> i.id, productID |-> i.productID, productName |-> productName,
     quantity |-> i.quantity, reservedQuantity |-> i.reservedQuantity,
     availableQuantity |-> AvailableQuantity(i), location |-> i.location]

\* lines 94-110: read the row again and build the output; the row read is
\* used without a nil check, so a missing row ends the call in a panic
AdjustInventoryReread(r, inv, fault) ==
    LET got == GetByProductID(inv, r.productID, fault)
        c == Called(r, "inventory.GetByProductID")
    IN IF got.err # Nil THEN Return(c, Nil, WrapDatabaseError(got.err))
       ELSE IF got.val = Nil
       THEN [c EXCEPT !.pc = "done", !.panicked = TRUE]
       ELSE Return([c EXCEPT !.inv = got.val],
                AdjustInventoryOutput(got.val, r.prod.name), Nil)

(***************************************************************************)
(* AdjustInventoryUseCase.Execute (application/inventory/adapter.go): the  *)
(* row is read, adjusted in memory and written back with Update.  Of the   *)
(* product use case's output only the name is used                         *)
(***************************************************************************)
\* lines 237-251: validate the input and verify the product exists
AdjustInventoryUseCaseVerify(r, prods, fault) ==
    IF r.productID = ""
    THEN Return(r, Nil, StdError("product ID is required"))
    ELSE IF r.arg = 0
    THEN Return(r, Nil, StdError("adjustment cannot be zero"))
    ELSE LET p == GetProductQuery(prods, r.productID, fault)
             c == Called(r, "products.GetByID")
         IN IF p.err # Nil
            THEN IF ErrorText(p.err) = "product not found"
                 THEN Return([c EXCEPT !.perr = p.err], Nil,
                        StdError(
                            "cannot adjust inventory: product not found"))
                 ELSE Return([c EXCEPT !.perr = p.err], Nil, p.err)
            ELSE [c EXCEPT !.prod = p.val, !.pc = "load"]

\* lines 254-266: read the row and adjust the copy in memory
AdjustInventoryUseCaseLoad(r, inv, fault) ==
    LET got == GetByProductID(inv, r.productID, fault)
        c == Called(r, "inventory.GetByProductID")
    IN IF got.err # Nil THEN Return(c, Nil, got.err)
       ELSE IF got.val = Nil THEN Return(c, Nil, ErrInventoryNotFound)
       ELSE LET a == AdjustQuantity(got.val, r.arg)
            IN IF a.err # Nil THEN Return([c EXCEPT !.inv = a.inv], Nil, a.err)
               ELSE [c EXCEPT !.inv = a.inv, !.pc = "save"]

\* lines 269-283: write the copy back and build the output from it
AdjustInventoryUseCaseSave(r, inv, fault) ==
    LET w == RepoUpdate(inv, r.inv, fault)
        c == Called(r, "inventory.Update")
    IN [table |-> w.table,
        req |-> IF w.err # Nil THEN Return(c, Nil, w.err)
                ELSE Return(c, AdjustInventoryOutput(r.inv, r.prod.name),
                            Nil)]

(***************************************************************************)
(* GetProductUseCase.Execute (application/product/get.go) with the         *)
(* inventory lookup of ProductInventoryAdapter over GetInventoryQuery      *)
(***************************************************************************)
\* lines 50-75 and the test of line 78
GetProductLoad(r, prods, fault) ==
    LET p == GetProductQuery(prods, r.productID, fault)
        c == IF r.productID = "" THEN r ELSE Called(r, "products.GetByID")
    IN IF p.err # Nil THEN Return(c, Nil, p.err)
       ELSE IF ~r.withInv THEN Return([c EXCEPT !.prod = p.val], p.val, Nil)
       ELSE [c EXCEPT !.prod = p.val, !.pc = "lookupInv",
                      !.lookup = [Idle EXCEPT !.op = "getInventory",
                                              !.productID = r.productID]]

\* enrichment whose failure fails the product retrieval
GetProductEnrichStrict(r, lk) ==
    IF lk.err = Nil
    THEN Return([r EXCEPT !.lookup = lk],
             [r.prod EXCEPT !.hasInventory = TRUE,
                            !.stockQuantity = lk.out.quantity,
                            !.availableQuantity = lk.out.availableQuantity],
             Nil)
    ELSE Return([r EXCEPT !.lookup = lk], Nil, lk.err)

\* lines 79-89: use the lookup result if there is one, ignore its error
GetProductEnrich(r, lk) ==
    IF lk.err = Nil
    THEN Return([r EXCEPT !.lookup = lk],
             [r.prod EXCEPT !.hasInventory = TRUE,
                            !.stockQuantity = lk.out.quantity,
                            !.availableQuantity = lk.out.availableQuantity],
             Nil)
    ELSE Return([r EXCEPT !.lookup = lk], r.prod, Nil)

\* the lookup's first statement (GetInventoryQuery lines 46-60)
GetProductLookupInv(r, inv, fault) ==
    LET lk == GetInventoryLoad(r.lookup, inv, fault)
    IN IF lk.pc = "done" THEN GetProductEnrich(r, lk)
       ELSE [r EXCEPT !.lookup = lk, !.pc = "lookupProd"]

\* the lookup's second statement (GetInventoryQuery lines 62-97)
GetProductLookupProd(r, prods, fault) ==
    GetProductEnrich(r, GetInventoryEnrich(r.lookup, prods, fault))

(***************************************************************************)
(* EntitySpec: one entity built by NewInventory, then any sequence of      *)
(* Reserve / Release / AdjustQuantity calls                                *)
(***************************************************************************)
Args == (0 - MaxArg)..MaxArg

EntityInit ==
    /\ call = Nil
    /\ \E q \in 0..MaxQty :
         ent = NewInventory("inv-1", "p1", q, "Warehouse A").inv
    /\ entLast = [op |-> "NewInventory", arg |-> 0, err |-> Nil,
                  before |-> ent, prev |-> Nil]
    /\ products = {}
    /\ inventory = {}
    /\ nextID = 1
    /\ faults = 0
    /\ started = 0
    /\ proc = <<>>
    /\ base = <<>>
    /\ acked = <<>>

\* the call before the last one
Prev == [op |-> entLast.op, arg |-> entLast.arg, err |-> entLast.err,
         before |-> entLast.before]

EntReserve(q) ==
    /\ ent' = Reserve(ent, q).inv
    /\ entLast' = [op |-> "Reserve", arg |-> q, err |-> Reserve(ent, q).err,
                   before |-> ent, prev |-> Prev]
    /\ UNCHANGED <<call, ucVars>>

EntRelease(q) ==
    /\ ent' = Release(ent, q).inv
    /\ entLast' = [op |-> "Release", arg |-> q, err |-> Release(ent, q).err,
                   before |-> ent, prev |-> Prev]
    /\ UNCHANGED <<call, ucVars>>

EntAdjustQuantity(d) ==
    /\ ent.quantity + d <= MaxQty
    /\ ent' = AdjustQuantity(ent, d).inv
    /\ entLast' = [op |-> "AdjustQuantity", arg |-> d,
                   err |-> AdjustQuantity(ent, d).err, before |-> ent,
                   prev |-> Prev]
    /\ UNCHANGED <<call, ucVars>>

EntityNext ==
    \/ \E q \in Args : EntReserve(q)
    \/ \E q \in Args : EntRelease(q)
    \/ \E d \in Args : EntAdjustQuantity(d)

EntitySpec == EntityInit /\ [][EntityNext]_vars

(***************************************************************************)
(* DomainSpec: the constructors and the Price operations applied to        *)
(* inputs drawn from small sets; call records the last application         *)
(***************************************************************************)
IDs == {"", "inv-1"}
ProductIDs == {"", "p1"}
Amounts == (0 - 1)..MaxAmount
Currencies == {"", "US", "USD", "EUR", "EURO"}

\* the prices NewPrice hands out
Prices ==
    {NewPrice(a, c).price : a \in {b \in Amounts : b >= 0},
                            c \in {d \in Currencies : Len(d) = 3}}

\* errors handed to WrapDatabaseError: nil, the driver's errors, texts that
\* match several rules, a text with a capital letter, and sql.ErrNoRows
\* wrapped by fmt.Errorf with %w
RawErrors ==
    {Nil, SqlErrNoRows, PqConnection, PqUniqueViolation,
     PqForeignKeyViolation, PqCheckViolation,
     StdError("connection timeout"),
     StdError("some database error"),
     StdError("Connection refused"),
     StdError("duplicate key value breaks foreign key constraint on connection"),
     StdError("violates foreign key constraint: network timeout"),
     [app |-> FALSE, code |-> "",
      msg |-> "connection lost: sql: no rows in result set",
      noRows |-> TRUE]}

DomainInit ==
    /\ call = [op |-> "none", args |-> Nil, out |-> Nil, err |-> Nil]
    /\ ent = Nil
    /\ entLast = Nil
    /\ products = {}
    /\ inventory = {}
    /\ nextID = 1
    /\ faults = 0
    /\ started = 0
    /\ proc = <<>>
    /\ base = <<>>
    /\ acked = <<>>

CallNewInventory(id, productID, quantity) ==
    /\ call' = [op |-> "NewInventory",
                args |-> [id |-> id, productID |-> productID,
                          quantity |-> quantity],
                out |-> NewInventory(id, productID, quantity,
                                     "Warehouse A").inv,
                err |-> NewInventory(id, productID, quantity,
                                     "Warehouse A").err]
    /\ UNCHANGED <<entVars, ucVars>>

CallNewPrice(amount, currency) ==
    /\ call' = [op |-> "NewPrice",
                args |-> [amount |-> amount, currency |-> currency],
                out |-> NewPrice(amount, currency).price,
                err |-> NewPrice(amount, currency).err]
    /\ UNCHANGED <<entVars, ucVars>>

CallAdd(p, other) ==
    /\ call' = [op |-> "Add", args |-> [p |-> p, other |-> other],
                out |-> Add(p, other).price, err |-> Add(p, other).err]
    /\ UNCHANGED <<entVars, ucVars>>

CallSubtract(p, other) ==
    /\ call' = [op |-> "Subtract", args |-> [p |-> p, other |-> other],
                out |-> Subtract(p, other).price,
                err |-> Subtract(p, other).err]
    /\ UNCHANGED <<entVars, ucVars>>

\* WrapDatabaseError on an error that was not wrapped before
CallWrapDatabaseError(e) ==
    /\ call' = [op |-> "WrapDatabaseError",
                args |-> [err |-> e, inner |-> Nil],
                out |-> WrapDatabaseError(e), err |-> Nil]
    /\ UNCHANGED <<entVars, ucVars>>

\* WrapDatabaseError on the error it returned: the use case wrapping what
\* the repository has wrapped
CallWrapDatabaseErrorAgain ==
    /\ call.op = "WrapDatabaseError"
    /\ call.out # Nil
    /\ call' = [op |-> "WrapDatabaseError",
                args |-> [err |-> call.out, inner |-> call.args.err],
                out |-> WrapDatabaseError(call.out), err |-> Nil]
    /\ UNCHANGED <<entVars, ucVars>>

DomainNext ==
    \/ \E id \in IDs, productID \in ProductIDs, q \in Args :
          CallNewInventory(id, productID, q)
    \/ \E a \in Amounts, c \in Currencies : CallNewPrice(a, c)
    \/ \E p \in Prices, other \in Prices : CallAdd(p, other)
    \/ \E p \in Prices, other \in Prices : CallSubtract(p, other)
    \/ \E e \in RawErrors : CallWrapDatabaseError(e)
    \/ CallWrapDatabaseErrorAgain

DomainSpec == DomainInit /\ [][DomainNext]_vars

(***************************************************************************)
(* ProductEntitySpec: a Product built by NewProduct, then any sequence of  *)
(* UpdateName / UpdatePrice calls; ent is the product the caller holds     *)
(* (nil when NewProduct refused), entLast the last call                    *)
(***************************************************************************)
ProductEntityIDs == {"", "p1", "p2"}
ProductNames == {"", "Widget", "Gadget"}

ProductEntityInit ==
    /\ call = Nil
    /\ ent = Nil
    /\ entLast = [op |-> "none", args |-> Nil, err |-> Nil, before |-> Nil]
    /\ products = {}
    /\ inventory = {}
    /\ nextID = 1
    /\ faults = 0
    /\ started = 0
    /\ proc = <<>>
    /\ base = <<>>
    /\ acked = <<>>

EntNewProduct(id, name, price) ==
    /\ ent' = NewProduct(id, name, price).prod
    /\ entLast' = [op |-> "NewProduct",
                   args |-> [id |-> id, name |-> name, price |-> price],
                   err |-> NewProduct(id, name, price).err, before |-> ent]
    /\ UNCHANGED <<call, ucVars>>

EntUpdateName(name) ==
    /\ ent # Nil
    /\ ent' = UpdateName(ent, name).prod
    /\ entLast' = [op |-> "UpdateName", args |-> [name |-> name],
                   err |-> UpdateName(ent, name).err, before |-> ent]
    /\ UNCHANGED <<call, ucVars>>

EntUpdatePrice(price) ==
    /\ ent # Nil
    /\ ent' = UpdatePrice(ent, price).prod
    /\ entLast' = [op |-> "UpdatePrice", args |-> [price |-> price],
                   err |-> UpdatePrice(ent, price).err, before |-> ent]
    /\ UNCHANGED <<call, ucVars>>

ProductEntityNext ==
    \/ \E id \in ProductEntityIDs, name \in ProductNames, price \in Prices :
         EntNewProduct(id, name, price)
    \/ \E name \in ProductNames : EntUpdateName(name)
    \/ \E price \in Prices : EntUpdatePrice(price)

ProductEntitySpec == ProductEntityInit /\ [][ProductEntityNext]_vars

(***************************************************************************)
(* Spec: the store and concurrent requests                                 *)
(***************************************************************************)
Procs == {"r1", "r2"}

\* identifiers handed out by uuid.New, in order
UUIDs == <<"inv-1", "inv-2", "inv-3", "inv-4", "inv-5", "inv-6">>
RowIDs == {"inv-0"} \cup {UUIDs[n] : n \in 1..Len(UUIDs)}

ProductUUIDs == <<"prod-1", "prod-2", "prod-3", "prod-4", "prod-5", "prod-6">>

\* inputs of the requests
CreateNames == {"", "Widget"}
CreateAmounts == {0 - 1, 0, 2}
CreateCurrencies == {"", "US", "USD"}
ReqProductIDs == {"", "p1"}
CreateQuantities == {0 - 1, 0, 2}
\* 33 is outside the range of the store's integers: Int32(33) = 1
Adjustments == {0 - 1, 0, 1, 33}

\* the product present when the service starts
SeedProduct ==
    [id |-> "p1", name |-> "Widget", priceAmount |-> 10,
     priceCurrency |-> "USD"]

\* rows the inventory table may hold when the service starts: any row the
\* table's constraints admit
SeedRows ==
    {ReconstructInventory("inv-0", "p1", q, rq, "Warehouse A") :
        q \in 0..SeedMaxQty, rq \in 0..SeedMaxQty}

Init ==
    /\ call = Nil
    /\ ent = Nil
    /\ entLast = Nil
    /\ products = {SeedProduct}
    /\ \/ inventory = {}
       \/ \E row \in SeedRows : CheckConstraints(row) /\ inventory = {row}
    /\ nextID = 1
    /\ faults = 0
    /\ started = 0
    /\ proc = [i \in Procs |-> Idle]
    /\ base = [id \in RowIDs |->
                IF \E row \in inventory : row.id = id
                THEN (CHOOSE row \in inventory : row.id = id).quantity
                ELSE 0]
    /\ acked = [id \in RowIDs |-> 0]

\* a statement either runs or fails with a driver error
FaultOK(f, usesStore) ==
    \/ f = Nil
    \/ f = PqConnection /\ usesStore /\ faults < MaxFaults

CountFault(f) == faults' = IF f = Nil THEN faults ELSE faults + 1

CanStart(i) == proc[i].pc \in {"idle", "done"} /\ started < MaxCalls

\* a fresh request record; seen is the row stored for productID when the
\* request arrives
Begin(op, productID, arg) ==
    [Idle EXCEPT !.op = op, !.productID = productID, !.arg = arg,
                 !.location = "Warehouse A",
                 !.seen = IF \E row \in inventory : row.productID = productID
                          THEN CHOOSE row \in inventory :
                                   row.productID = productID
                          ELSE Nil,
                 !.seenProd = IF \E q \in products : q.id = productID
                              THEN CHOOSE q \in products : q.id = productID
                              ELSE Nil]

\* faulty records that a statement of the request failed in the driver
Mark(r, f) == [r EXCEPT !.faulty = @ \/ f # Nil]

StartCreateInventory(i, productID, quantity, f) ==
    /\ CanStart(i)
    /\ FaultOK(f, productID # "" /\ quantity >= 0)
    /\ proc' = [proc EXCEPT ![i] = Mark(
                 CreateInventoryVerify(
                     Begin("createInventory", productID, quantity),
                     products, f), f)]
    /\ started' = started + 1
    /\ CountFault(f)
    /\ UNCHANGED <<call, ent, entLast, products, inventory, nextID, base, acked>>

CreateInventoryCheckStep(i, f) ==
    /\ proc[i].op = "createInventory" /\ proc[i].pc = "exists"
    /\ nextID <= Len(UUIDs)
    /\ FaultOK(f, TRUE)
    /\ proc' = [proc EXCEPT ![i] = Mark(
                 CreateInventoryCheck(proc[i], inventory, UUIDs[nextID], f), f)]
    /\ nextID' = IF proc'[i].pc = "create" THEN nextID + 1 ELSE nextID
    /\ CountFault(f)
    /\ UNCHANGED <<call, ent, entLast, products, inventory, started, base, acked>>

CreateInventorySaveStep(i, f) ==
    /\ proc[i].op = "createInventory" /\ proc[i].pc = "create"
    /\ FaultOK(f, TRUE)
    /\ LET w == CreateInventorySave(proc[i], inventory, products, f)
       IN /\ proc' = [proc EXCEPT ![i] = Mark(
                 w.req, f)]
          /\ inventory' = w.table
          /\ base' = IF w.req.err = Nil
                     THEN [base EXCEPT ![proc[i].inv.id] = proc[i].inv.quantity]
                     ELSE base
    /\ CountFault(f)
    /\ UNCHANGED <<call, ent, entLast, products, nextID, started, acked>>

StartAdjustInventory(i, productID, adjustment, f) ==
    /\ CanStart(i)
    /\ FaultOK(f, productID # "" /\ adjustment # 0)
    /\ proc' = [proc EXCEPT ![i] = Mark(
                 AdjustInventoryVerify(
                     Begin("adjustInventory", productID, adjustment),
                     products, f), f)]
    /\ started' = started + 1
    /\ CountFault(f)
    /\ UNCHANGED <<call, ent, entLast, products, inventory, nextID, base, acked>>

\* seen becomes the row stored for the productID when the read is made
AdjustInventoryLoadStep(i, f) ==
    /\ proc[i].op = "adjustInventory" /\ proc[i].pc = "load"
    /\ FaultOK(f, TRUE)
    /\ proc' = [proc EXCEPT ![i] = Mark(
                 AdjustInventoryLoad(
                     [proc[i] EXCEPT !.seen =
                         Begin("adjustInventory", proc[i].productID,
                               proc[i].arg).seen],
                     inventory, f), f)]
    /\ CountFault(f)
    /\ UNCHANGED <<call, ent, entLast, products, inventory, nextID, started, base,
                   acked>>

AdjustInventoryApplyStep(i, f) ==
    /\ proc[i].op = "adjustInventory" /\ proc[i].pc = "apply"
    /\ FaultOK(f, TRUE)
    /\ LET w == AdjustInventoryApply(proc[i], inventory, f)
       IN /\ proc' = [proc EXCEPT ![i] = Mark(
                 w.req, f)]
          /\ inventory' = w.table
    /\ CountFault(f)
    /\ UNCHANGED <<call, ent, entLast, products, nextID, started, base, acked>>

\* acked adds the adjustment of a call that returned success to the row the
\* call reported
AdjustInventoryRereadStep(i, f) ==
    /\ proc[i].op = "adjustInventory" /\ proc[i].pc = "reread"
    /\ FaultOK(f, TRUE)
    /\ proc' = [proc EXCEPT ![i] = Mark(
                 AdjustInventoryReread(proc[i], inventory, f), f)]
    /\ acked' = IF proc'[i].out # Nil
                THEN [acked EXCEPT ![proc'[i].out.id] = @ + proc[i].arg]
                ELSE acked
    /\ CountFault(f)
    /\ UNCHANGED <<call, ent, entLast, products, inventory, nextID, started, base>>

StartGetInventory(i, productID, f) ==
    /\ CanStart(i)
    /\ FaultOK(f, productID # "")
    /\ proc' = [proc EXCEPT ![i] = Mark(
                 GetInventoryLoad(Begin("getInventory", productID, 0),
                                  inventory, f), f)]
    /\ started' = started + 1
    /\ CountFault(f)
    /\ UNCHANGED <<call, ent, entLast, products, inventory, nextID, base, acked>>

GetInventoryEnrichStep(i, f) ==
    /\ proc[i].op = "getInventory" /\ proc[i].pc = "enrich"
    /\ FaultOK(f, TRUE)
    /\ proc' = [proc EXCEPT ![i] = Mark(
                 GetInventoryEnrich(proc[i], products, f), f)]
    /\ CountFault(f)
    /\ UNCHANGED <<call, ent, entLast, products, inventory, nextID, started, base,
                   acked>>

StartGetProduct(i, productID, withInv, f) ==
    /\ CanStart(i)
    /\ FaultOK(f, productID # "")
    /\ proc' = [proc EXCEPT ![i] = Mark(
                 GetProductLoad(
                     [Begin("getProduct", productID, 0)
                         EXCEPT !.withInv = withInv],
                     products, f), f)]
    /\ started' = started + 1
    /\ CountFault(f)
    /\ UNCHANGED <<call, ent, entLast, products, inventory, nextID, base, acked>>

GetProductLookupInvStep(i, f) ==
    /\ proc[i].op = "getProduct" /\ proc[i].pc = "lookupInv"
    /\ FaultOK(f, TRUE)
    /\ proc' = [proc EXCEPT ![i] = Mark(
                 GetProductLookupInv(proc[i], inventory, f), f)]
    /\ CountFault(f)
    /\ UNCHANGED <<call, ent, entLast, products, inventory, nextID, started, base,
                   acked>>

GetProductLookupProdStep(i, f) ==
    /\ proc[i].op = "getProduct" /\ proc[i].pc = "lookupProd"
    /\ FaultOK(f, TRUE)
    /\ proc' = [proc EXCEPT ![i] = Mark(
                 GetProductLookupProd(proc[i], products, f), f)]
    /\ CountFault(f)
    /\ UNCHANGED <<call, ent, entLast, products, inventory, nextID, started, base,
                   acked>>

\* the whole of CreateProductCommand.Execute: its one statement is the
\* INSERT; an id is generated once the name and the price have passed
CreateProductExecute(i, name, amount, currency, f) ==
    /\ CanStart(i)
    /\ nextID <= Len(ProductUUIDs)
    /\ FaultOK(f, name # "" /\ NewPrice(amount, currency).err = Nil)
    /\ LET r == [Begin("createProduct", "", amount)
                    EXCEPT !.name = name, !.currency = currency]
           w == CreateProductCommand(r, products, ProductUUIDs[nextID], f)
       IN /\ proc' = [proc EXCEPT ![i] = Mark(w.req, f)]
          /\ products' = w.table
    /\ nextID' = IF name # "" /\ NewPrice(amount, currency).err = Nil
                 THEN nextID + 1 ELSE nextID
    /\ started' = started + 1
    /\ CountFault(f)
    /\ UNCHANGED <<call, ent, entLast, inventory, base, acked>>

\* DELETE FROM products WHERE id = $1, with ON DELETE CASCADE on inventory
DeleteProduct(productID) ==
    /\ \E q \in products : q.id = productID
    /\ products' = {q \in products : q.id # productID}
    /\ inventory' = DeleteInventory(inventory, productID)
    /\ UNCHANGED <<call, ent, entLast, nextID, faults, started, proc, base, acked>>

\* InventoryRepositoryImpl.Delete
DeleteInventoryRow(productID) ==
    /\ \E row \in inventory : row.productID = productID
    /\ inventory' = DeleteInventory(inventory, productID)
    /\ UNCHANGED <<call, ent, entLast, products, nextID, faults, started, proc, base,
                   acked>>

FaultSet == {Nil, PqConnection}

\* the store's own operations, run by an administrator or another service
StoreNext ==
    \/ \E p \in ReqProductIDs : DeleteProduct(p)
    \/ \E p \in ReqProductIDs : DeleteInventoryRow(p)

\* concurrent createInventory requests
CreateNext ==
    \/ \E i \in Procs, p \in ReqProductIDs, q \in CreateQuantities,
          f \in FaultSet : StartCreateInventory(i, p, q, f)
    \/ \E i \in Procs, f \in FaultSet : CreateInventoryCheckStep(i, f)
    \/ \E i \in Procs, f \in FaultSet : CreateInventorySaveStep(i, f)
    \/ StoreNext

CreateSpec == Init /\ [][CreateNext]_vars

\* concurrent adjustInventory requests
AdjustNext ==
    \/ \E i \in Procs, p \in ReqProductIDs, d \in Adjustments,
          f \in FaultSet : StartAdjustInventory(i, p, d, f)
    \/ \E i \in Procs, f \in FaultSet : AdjustInventoryLoadStep(i, f)
    \/ \E i \in Procs, f \in FaultSet : AdjustInventoryApplyStep(i, f)
    \/ \E i \in Procs, f \in FaultSet : AdjustInventoryRereadStep(i, f)
    \/ StoreNext

AdjustSpec == Init /\ [][AdjustNext]_vars

\* concurrent getInventory and getProduct requests
QueryNext ==
    \/ \E i \in Procs, p \in ReqProductIDs, f \in FaultSet :
          StartGetInventory(i, p, f)
    \/ \E i \in Procs, f \in FaultSet : GetInventoryEnrichStep(i, f)
    \/ \E i \in Procs, p \in ReqProductIDs, w \in BOOLEAN, f \in FaultSet :
          StartGetProduct(i, p, w, f)
    \/ \E i \in Procs, f \in FaultSet : GetProductLookupInvStep(i, f)
    \/ \E i \in Procs, f \in FaultSet : GetProductLookupProdStep(i, f)
    \/ StoreNext

QuerySpec == Init /\ [][QueryNext]_vars

\* adjustments given to AdjustInventoryUseCase
UseCaseAdjustments == {0 - 1, 0, 1}

StartAdjustUseCase(i, productID, adjustment, f) ==
    /\ CanStart(i)
    /\ FaultOK(f, productID # "" /\ adjustment # 0)
    /\ proc' = [proc EXCEPT ![i] = Mark(
                 AdjustInventoryUseCaseVerify(
                     Begin("adjustUseCase", productID, adjustment),
                     products, f), f)]
    /\ started' = started + 1
    /\ CountFault(f)
    /\ UNCHANGED <<call, ent, entLast, products, inventory, nextID, base, acked>>

\* seen becomes the row stored for the productID when the read is made
AdjustUseCaseLoadStep(i, f) ==
    /\ proc[i].op = "adjustUseCase" /\ proc[i].pc = "load"
    /\ FaultOK(f, TRUE)
    /\ proc' = [proc EXCEPT ![i] = Mark(
                 AdjustInventoryUseCaseLoad(
                     [proc[i] EXCEPT !.seen =
                         Begin("adjustUseCase", proc[i].productID,
                               proc[i].arg).seen],
                     inventory, f), f)]
    /\ CountFault(f)
    /\ UNCHANGED <<call, ent, entLast, products, inventory, nextID, started, base,
                   acked>>

\* acked adds the adjustment of a call that returned success to the row the
\* call reported
AdjustUseCaseSaveStep(i, f) ==
    /\ proc[i].op = "adjustUseCase" /\ proc[i].pc = "save"
    /\ FaultOK(f, TRUE)
    /\ LET w == AdjustInventoryUseCaseSave(proc[i], inventory, f)
       IN /\ proc' = [proc EXCEPT ![i] = Mark(w.req, f)]
          /\ inventory' = w.table
          /\ acked' = IF w.req.out # Nil
                      THEN [acked EXCEPT ![w.req.out.id] = @ + proc[i].arg]
                      ELSE acked
    /\ CountFault(f)
    /\ UNCHANGED <<call, ent, entLast, products, nextID, started, base>>

\* concurrent calls of AdjustInventoryUseCase
UseCaseNext ==
    \/ \E i \in Procs, p \in ReqProductIDs, d \in UseCaseAdjustments,
          f \in FaultSet : StartAdjustUseCase(i, p, d, f)
    \/ \E i \in Procs, f \in FaultSet : AdjustUseCaseLoadStep(i, f)
    \/ \E i \in Procs, f \in FaultSet : AdjustUseCaseSaveStep(i, f)
    \/ StoreNext

UseCaseSpec == Init /\ [][UseCaseNext]_vars

\* concurrent createProduct requests
ProductNext ==
    \/ \E i \in Procs, n \in CreateNames, a \in CreateAmounts,
          c \in CreateCurrencies, f \in FaultSet :
          CreateProductExecute(i, n, a, c, f)
    \/ StoreNext

ProductSpec == Init /\ [][ProductNext]_vars

(***************************************************************************)
(* Entity properties                                                       *)
(***************************************************************************)
Max(a, b) == IF a >= b THEN a ELSE b

\* C1: after any sequence of Reserve, Release and AdjustQuantity calls on an
\* entity built by NewInventory, quantity >= reservedQuantity >= 0.
C1_QuantityBounds ==
    /\ ent.quantity >= ent.reservedQuantity
    /\ ent.reservedQuantity >= 0

\* a stock reduction below the reserved amount was attempted and rejected
C1_Witness ==
    /\ entLast.op = "AdjustQuantity"
    /\ entLast.arg < 0
    /\ entLast.before.reservedQuantity > 0
    /\ entLast.before.quantity + entLast.arg < entLast.before.reservedQuantity
    /\ entLast.before.quantity + entLast.arg >= 0

\* C2: a Reserve, Release or AdjustQuantity call that returns an error
\* leaves quantity and reservedQuantity as they were before the call.
C2_RejectedChangesNothing ==
    (entLast.op \in {"Reserve", "Release", "AdjustQuantity"}
        /\ entLast.err # Nil)
    => /\ ent.quantity = entLast.before.quantity
       /\ ent.reservedQuantity = entLast.before.reservedQuantity

\* a Release of more than is reserved was rejected
C2_Witness ==
    /\ entLast.op = "Release"
    /\ entLast.arg > entLast.before.reservedQuantity
    /\ entLast.before.reservedQuantity > 0
    /\ entLast.err # Nil

\* C9: AdjustQuantity fails with the InvalidQuantity kind in both rejection
\* cases: quantity + delta < 0, and 0 <= quantity + delta < reservedQuantity.
C9_BothRejectionsInvalidQuantity ==
    (entLast.op = "AdjustQuantity"
        /\ \/ entLast.before.quantity + entLast.arg < 0
           \/ entLast.before.quantity + entLast.arg
                 < entLast.before.reservedQuantity)
    => Is(entLast.err, CodeInvalidQuantity)

\* C10: AdjustQuantity(delta) succeeds exactly when quantity + delta >=
\* max(0, reservedQuantity); on success quantity becomes quantity + delta,
\* reservedQuantity is unchanged and the available quantity is the new
\* quantity minus the reserved quantity.
C10_AdjustQuantityContract ==
    entLast.op = "AdjustQuantity"
    => LET b == entLast.before
           n == b.quantity + entLast.arg
       IN /\ (entLast.err = Nil) <=> (n >= Max(0, b.reservedQuantity))
          /\ entLast.err = Nil
               => /\ ent.quantity = n
                  /\ ent.reservedQuantity = b.reservedQuantity
                  /\ AvailableQuantity(ent) = n - b.reservedQuantity

\* the scenario of the specification scaled by ten: quantity 5, reserved 1,
\* adjust(-4) leaves quantity 1 and nothing available
C10_Witness ==
    /\ entLast.op = "AdjustQuantity"
    /\ entLast.before.quantity = 5
    /\ entLast.before.reservedQuantity = 1
    /\ entLast.arg = 0 - 4
    /\ entLast.err = Nil
    /\ ent.quantity = 1
    /\ AvailableQuantity(ent) = 0

\* C11: for any entity state and any q with 0 < q <= availableQuantity,
\* Reserve(q) followed immediately by Release(q) both succeed and leave
\* reservedQuantity and quantity as they were before the Reserve.
C11_ReserveReleaseRoundTrip ==
    (/\ entLast.op = "Release"
     /\ entLast.prev # Nil
     /\ entLast.prev.op = "Reserve"
     /\ entLast.prev.arg = entLast.arg
     /\ entLast.arg > 0
     /\ entLast.arg <= AvailableQuantity(entLast.prev.before))
    => /\ entLast.prev.err = Nil
       /\ entLast.err = Nil
       /\ ent.reservedQuantity = entLast.prev.before.reservedQuantity
       /\ ent.quantity = entLast.prev.before.quantity

\* everything available was reserved on top of an earlier reservation and
\* released again
C11_Witness ==
    /\ entLast.op = "Release"
    /\ entLast.prev # Nil
    /\ entLast.prev.op = "Reserve"
    /\ entLast.prev.arg = entLast.arg
    /\ entLast.prev.before.reservedQuantity > 0
    /\ entLast.arg = AvailableQuantity(entLast.prev.before)
    /\ entLast.arg > 1
    /\ entLast.err = Nil

\* C12: Reserve(qty) fails with InvalidQuantity if qty <= 0, fails with
\* InsufficientStock if qty > quantity - reservedQuantity, and otherwise
\* increases reservedQuantity by exactly qty and leaves quantity unchanged.
C12_ReserveContract ==
    entLast.op = "Reserve"
    => LET b == entLast.before
           qty == entLast.arg
       IN /\ qty <= 0 => Is(entLast.err, CodeInvalidQuantity)
          /\ qty > b.quantity - b.reservedQuantity
               => Is(entLast.err, CodeInsufficientStock)
          /\ (qty > 0 /\ qty <= b.quantity - b.reservedQuantity)
               => /\ entLast.err = Nil
                  /\ ent.reservedQuantity = b.reservedQuantity + qty
                  /\ ent.quantity = b.quantity

\* a reservation that fits the stock but not what is left of it was rejected
C12_Witness ==
    /\ entLast.op = "Reserve"
    /\ entLast.before.reservedQuantity > 0
    /\ entLast.arg <= entLast.before.quantity
    /\ entLast.arg > AvailableQuantity(entLast.before)
    /\ Is(entLast.err, CodeInsufficientStock)

\* C13: Release(qty) fails with InvalidQuantity if qty <= 0, fails if
\* qty > reservedQuantity, and otherwise decreases reservedQuantity by
\* exactly qty and leaves quantity unchanged.
C13_ReleaseContract ==
    entLast.op = "Release"
    => LET b == entLast.before
           qty == entLast.arg
       IN /\ qty <= 0 => Is(entLast.err, CodeInvalidQuantity)
          /\ qty > b.reservedQuantity => entLast.err # Nil
          /\ (qty > 0 /\ qty <= b.reservedQuantity)
               => /\ entLast.err = Nil
                  /\ ent.reservedQuantity = b.reservedQuantity - qty
                  /\ ent.quantity = b.quantity

\* a negative release was rejected while something was reserved
C13_Witness ==
    /\ entLast.op = "Release"
    /\ entLast.arg < 0
    /\ entLast.before.reservedQuantity > 0
    /\ Is(entLast.err, CodeInvalidQuantity)
    /\ ent = entLast.before

(***************************************************************************)
(* Constructor and value-object properties                                 *)
(***************************************************************************)
\* C14 as claimed: creating an Inventory fails with InvalidQuantity if
\* quantity < 0 and fails if id or productID is empty; otherwise the new
\* record has reservedQuantity 0 and availableQuantity = quantity.
C14_NegativeAlwaysInvalidQuantity ==
    call.op = "NewInventory"
    => /\ call.args.quantity < 0 => Is(call.err, CodeInvalidQuantity)
       /\ (call.args.id = "" \/ call.args.productID = "") => call.err # Nil
       /\ (call.args.quantity >= 0 /\ call.args.id # ""
              /\ call.args.productID # "")
            => /\ call.err = Nil
               /\ call.out.reservedQuantity = 0
               /\ AvailableQuantity(call.out) = call.args.quantity

\* C14 amended: creating an Inventory fails if id or productID is empty,
\* fails with InvalidQuantity if both are present and quantity < 0, and
\* otherwise yields a record with the given quantity, reservedQuantity 0
\* and availableQuantity = quantity.
C14_NewInventoryContract ==
    call.op = "NewInventory"
    => /\ (call.args.id = "" \/ call.args.productID = "")
            => call.err # Nil /\ call.out = Nil
       /\ (call.args.id # "" /\ call.args.productID # ""
              /\ call.args.quantity < 0)
            => Is(call.err, CodeInvalidQuantity) /\ call.out = Nil
       /\ (call.args.quantity >= 0 /\ call.args.id # ""
              /\ call.args.productID # "")
            => /\ call.err = Nil
               /\ call.out.quantity = call.args.quantity
               /\ call.out.reservedQuantity = 0
               /\ AvailableQuantity(call.out) = call.args.quantity

\* a negative quantity was rejected for a record with both identifiers
C14_Witness ==
    /\ call.op = "NewInventory"
    /\ call.args.id # ""
    /\ call.args.productID # ""
    /\ call.args.quantity < 0
    /\ call.err = ErrInvalidQuantity

\* C19: Price creation fails with the InvalidPrice error kind exactly when
\* amount < 0, currency is empty, or the currency's length is not 3; for
\* every other input it succeeds and Amount() and Currency() return the
\* inputs unchanged.
C19_NewPriceContract ==
    call.op = "NewPrice"
    => LET bad == \/ call.args.amount < 0
                  \/ call.args.currency = ""
                  \/ Len(call.args.currency) # 3
       IN /\ bad => Is(call.err, CodeInvalidPrice)
          /\ ~bad => /\ call.err = Nil
                     /\ Amount(call.out) = call.args.amount
                     /\ Currency(call.out) = call.args.currency

\* C20: Add and Subtract fail with CurrencyMismatch (an error kind of its
\* own, so an error that carries a code other than INTERNAL_ERROR) whenever
\* the two currencies differ; with equal currencies Add returns a Price holding
\* the sum and Subtract a Price holding the difference in the same
\* currency, except that Subtract fails with InvalidPrice when the
\* difference would be negative.  (The operands are values, so neither can
\* be modified.)
C20_AddSubtractContract ==
    call.op \in {"Add", "Subtract"}
    => LET p == call.args.p
           other == call.args.other
           result == IF call.op = "Add" THEN p.amount + other.amount
                     ELSE p.amount - other.amount
       IN /\ p.currency # other.currency
               => /\ call.err # Nil
                  /\ GetCode(call.err) # CodeInternalError
          /\ (p.currency = other.currency /\ result >= 0)
               => /\ call.err = Nil
                  /\ Amount(call.out) = result
                  /\ Currency(call.out) = p.currency
          /\ (p.currency = other.currency /\ result < 0)
               => Is(call.err, CodeInvalidPrice)

(***************************************************************************)
(* Use-case properties                                                     *)
(***************************************************************************)
Finished(i, op) == proc[i].op = op /\ proc[i].pc = "done"

InventoryOps == {"inventory.GetByProductID", "inventory.Create",
                 "inventory.AdjustStock"}

\* C3: once all concurrent AdjustInventoryCommand calls have finished, the
\* stored quantity of a row equals its initial quantity plus the sum of the
\* adjustments of the calls that returned success.
C3_NoLostUpdate ==
    (\A i \in Procs : proc[i].op = "adjustInventory" => proc[i].pc = "done")
    => \A row \in inventory : row.quantity = base[row.id] + acked[row.id]

\* C4: for a product that exists in the store getProduct succeeds whatever
\* the inventory lookup does: without a lookup, or when the lookup returns
\* an error, hasInventory is false and both stock fields are 0; when the
\* lookup succeeds hasInventory is true and the stock fields are the
\* lookup's quantity and availableQuantity.
C4_EnrichmentNeverFails ==
    \A i \in Procs :
        (Finished(i, "getProduct") /\ proc[i].prod # Nil)
        => /\ proc[i].err = Nil
           /\ proc[i].out # Nil
           /\ proc[i].out.id = proc[i].productID
           /\ IF ~proc[i].withInv
              THEN /\ proc[i].out.hasInventory = FALSE
                   /\ proc[i].out.stockQuantity = 0
                   /\ proc[i].out.availableQuantity = 0
              ELSE IF proc[i].lookup.err # Nil
              THEN /\ proc[i].out.hasInventory = FALSE
                   /\ proc[i].out.stockQuantity = 0
                   /\ proc[i].out.availableQuantity = 0
              ELSE /\ proc[i].out.hasInventory = TRUE
                   /\ proc[i].out.stockQuantity = proc[i].lookup.out.quantity
                   /\ proc[i].out.availableQuantity
                        = proc[i].lookup.out.availableQuantity

\* a product was returned although its inventory lookup failed
C4_Witness ==
    \E i \in Procs :
        /\ Finished(i, "getProduct")
        /\ proc[i].withInv
        /\ proc[i].prod # Nil
        /\ proc[i].lookup.err # Nil
        /\ proc[i].out # Nil

\* C5: when getInventory has read a row and the Product collaborator fails
\* with product-not-found, it succeeds with the row's fields, productName
\* "Unknown (Product Deleted)", productPrice 0 and an empty currency; when
\* the collaborator fails with any other error it returns that error and no
\* output.
C5_DeletedProductDegrades ==
    \A i \in Procs :
        (Finished(i, "getInventory") /\ proc[i].perr # Nil)
        => IF Is(proc[i].perr, CodeProductNotFound)
           THEN /\ proc[i].err = Nil
                /\ proc[i].out =
                     [id |-> proc[i].inv.id,
                      productID |-> proc[i].inv.productID,
                      productName |-> "Unknown (Product Deleted)",
                      productPrice |-> 0,
                      productCurrency |-> "",
                      quantity |-> proc[i].inv.quantity,
                      reservedQuantity |-> proc[i].inv.reservedQuantity,
                      availableQuantity |->
                          proc[i].inv.quantity - proc[i].inv.reservedQuantity,
                      location |-> proc[i].inv.location]
           ELSE /\ proc[i].err = proc[i].perr
                /\ proc[i].out = Nil

\* the product was deleted between the two reads of a getInventory
C5_Witness ==
    \E i \in Procs :
        /\ Finished(i, "getInventory")
        /\ Is(proc[i].perr, CodeProductNotFound)
        /\ proc[i].inv # Nil
        /\ proc[i].inv.reservedQuantity > 0
        /\ proc[i].out # Nil

\* C6: a createInventory whose product lookup reports not-found fails with
\* ProductNotFound and the message "cannot create inventory: product not
\* found" without reading or writing the inventory store; any other error
\* of the lookup is returned unchanged.
C6_ProductNotFoundMapping ==
    \A i \in Procs :
        (Finished(i, "createInventory") /\ proc[i].perr # Nil)
        => /\ proc[i].out = Nil
           /\ proc[i].calls \cap InventoryOps = {}
           /\ IF Is(proc[i].perr, CodeProductNotFound)
              THEN proc[i].err =
                     New(CodeProductNotFound,
                         "cannot create inventory: product not found")
              ELSE proc[i].err = proc[i].perr

\* a createInventory for a deleted product was rejected
C6_Witness ==
    \E i \in Procs :
        /\ Finished(i, "createInventory")
        /\ proc[i].perr = ErrProductNotFound
        /\ proc[i].productID = "p1"
        /\ GetCode(proc[i].err) = CodeProductNotFound

\* a createInventory that arrived when a row made by an earlier, successful
\* createInventory was stored for its productID, and that row is still there
LaterCreate(i) ==
    /\ Finished(i, "createInventory")
    /\ proc[i].seen # Nil
    /\ proc[i].seen.id # "inv-0"
    /\ \E row \in inventory : row.id = proc[i].seen.id

\* C7 as claimed: every later createInventory for a productID whose record
\* exists fails with InventoryExists, never calls the store's create and
\* leaves the record unchanged.
C7_AlwaysInventoryExists ==
    \A i \in Procs :
        LaterCreate(i)
        => /\ proc[i].err = ErrInventoryExists
           /\ "inventory.Create" \notin proc[i].calls
           /\ proc[i].seen \in inventory

\* C7 amended: every later createInventory for a productID whose record
\* exists fails, never calls the store's create and leaves the record
\* unchanged; the error is InventoryExists when the quantity is not negative
\* and no statement of the call fails in storage.
C7_LaterCreateRejected ==
    \A i \in Procs :
        LaterCreate(i)
        => /\ proc[i].err # Nil
           /\ proc[i].out = Nil
           /\ "inventory.Create" \notin proc[i].calls
           /\ proc[i].seen \in inventory
           /\ (proc[i].arg >= 0 /\ ~proc[i].faulty)
                => proc[i].err = ErrInventoryExists

\* a second createInventory found the record of the first
C7_Witness ==
    \E i \in Procs :
        /\ LaterCreate(i)
        /\ proc[i].err = ErrInventoryExists
        /\ "inventory.GetByProductID" \in proc[i].calls

\* C8: in every reachable state of the store, whatever the interleaving of
\* concurrent createInventory calls, at most one inventory row exists per
\* productID.
C8_OneRowPerProduct ==
    \A r1 \in inventory, r2 \in inventory :
        r1.productID = r2.productID => r1 = r2

\* two createInventory calls both passed the existence check and both
\* called the store's create; one row is stored and the other call failed
C8_Witness ==
    /\ faults = 0
    /\ \A i \in Procs :
         /\ Finished(i, "createInventory")
         /\ proc[i].productID = "p1"
         /\ "inventory.Create" \in proc[i].calls
         /\ proc[i].seen = Nil
    /\ \E i \in Procs : proc[i].err = Nil
    /\ \E i \in Procs : proc[i].err # Nil
    /\ Cardinality(inventory) = 1

C17_EmptyIDInvalidInput ==
    \A i \in Procs :
        Finished(i, "getProduct")
        => /\ proc[i].productID = ""
                => /\ Is(proc[i].err, CodeInvalidInput)
                   /\ proc[i].out = Nil
                   /\ proc[i].calls = {}
           /\ (proc[i].productID # "" /\ proc[i].seenProd = Nil
                  /\ ~proc[i].faulty)
                => /\ GetCode(proc[i].err)
                        \in {CodeNotFound, CodeProductNotFound}
                   /\ proc[i].out = Nil

\* C17 amended: getProduct fails with InvalidProductID when the id is
\* empty, without reading the store, and with ProductNotFound when the
\* store returns no product; in both cases no output is returned.
C17_GetProductRejections ==
    \A i \in Procs :
        Finished(i, "getProduct")
        => /\ proc[i].productID = ""
                => /\ Is(proc[i].err, CodeInvalidProductID)
                   /\ proc[i].out = Nil
                   /\ proc[i].calls = {}
           /\ (proc[i].productID # "" /\ proc[i].seenProd = Nil
                  /\ ~proc[i].faulty)
                => /\ proc[i].err = ErrProductNotFound
                   /\ proc[i].out = Nil
                   /\ proc[i].calls = {"products.GetByID"}

\* a getProduct without an id, and one for a product that was deleted
C17_Witness ==
    \E i \in Procs, j \in Procs :
        /\ Finished(i, "getProduct")
        /\ proc[i].productID = ""
        /\ Is(proc[i].err, CodeInvalidProductID)
        /\ Finished(j, "getProduct")
        /\ proc[j].productID = "p1"
        /\ proc[j].seenProd = Nil
        /\ proc[j].err = ErrProductNotFound

\* C18: createProduct calls the store's create exactly once when the name
\* is not empty and the price is valid (amount >= 0, currency of length 3,
\* zero allowed) and never when validation fails; a store failure is
\* returned as an error with no output; on success the output carries a
\* non-empty generated id and the input name, amount and currency.
C18_CreateProductContract ==
    \A i \in Procs :
        Finished(i, "createProduct")
        => LET r == proc[i]
               valid == /\ r.name # ""
                        /\ r.arg >= 0
                        /\ Len(r.currency) = 3
           IN /\ r.creates = IF valid THEN 1 ELSE 0
              /\ ~valid => (r.err # Nil /\ r.out = Nil)
              /\ r.faulty => (r.err # Nil /\ r.out = Nil)
              /\ (valid /\ ~r.faulty)
                   => /\ r.err = Nil
                      /\ r.out.id # ""
                      /\ r.out.name = r.name
                      /\ r.out.priceAmount = r.arg
                      /\ r.out.priceCurrency = r.currency

\* a product with a zero price was created, and a create failed in storage
C18_Witness ==
    \E i \in Procs, j \in Procs :
        /\ Finished(i, "createProduct")
        /\ proc[i].arg = 0
        /\ proc[i].err = Nil
        /\ proc[i].creates = 1
        /\ \E row \in products : row.id = proc[i].out.id
        /\ Finished(j, "createProduct")
        /\ proc[j].faulty
        /\ proc[j].creates = 1
        /\ proc[j].err # Nil

\* C25: under any interleaving of concurrent AdjustInventoryCommand calls,
\* every stored inventory row satisfies quantity >= reservedQuantity >= 0
\* in every reachable state: an adjustment validated against a stale read
\* is not committed if committing it would break the bound.
C25_StoredBounds ==
    \A row \in inventory :
        /\ row.quantity >= row.reservedQuantity
        /\ row.reservedQuantity >= 0

\* two reductions were validated against the same read; the store took one
\* and refused the other
C25_Witness ==
    \E i \in Procs, j \in Procs :
        /\ i # j
        /\ Finished(i, "adjustInventory")
        /\ Finished(j, "adjustInventory")
        /\ proc[i].seen = proc[j].seen
        /\ proc[i].seen # Nil
        /\ proc[i].arg < 0
        /\ proc[j].arg < 0
        /\ "inventory.AdjustStock" \in proc[i].calls
        /\ "inventory.AdjustStock" \in proc[j].calls
        /\ proc[i].err = Nil
        /\ proc[j].err # Nil
        /\ ~proc[j].faulty

\* C26: whenever adjustInventory returns an error, also one raised by the
\* re-read that follows AdjustStock, the stored quantity is what it was
\* before the call (stated for a call that runs alone: the only request of
\* the behaviour).
C26_ErrorLeavesStoreUnchanged ==
    \A i \in Procs :
        (started = 1 /\ Finished(i, "adjustInventory") /\ proc[i].err # Nil)
        => \A row \in inventory : row.quantity = base[row.id]

\* C28: AdjustInventoryCommand.Execute always ends by returning an output
\* or an error: when the row disappears after the validation read, the
\* call ends in an error, never in the dereference of a missing inventory
\* and never in a success.
C28_AlwaysReturns ==
    \A i \in Procs :
        Finished(i, "adjustInventory")
        => /\ ~proc[i].panicked
           /\ (proc[i].out # Nil) # (proc[i].err # Nil)

\* C30: in every reachable store state each inventory row's productID
\* refers to a product that exists, under any interleaving of
\* createInventory with product deletion.
C30_RowsReferToProducts ==
    \A row \in inventory : \E q \in products : q.id = row.productID

\* a createInventory passed the product check, the product was deleted,
\* and the insert was refused
C30_Witness ==
    \E i \in Procs :
        /\ Finished(i, "createInventory")
        /\ proc[i].prod # Nil
        /\ "inventory.Create" \in proc[i].calls
        /\ ~proc[i].faulty
        /\ proc[i].err # Nil
        /\ products = {}
        /\ inventory = {}

\* C23: with no concurrent calls (the call is the only request), a
\* successful adjustInventory(productID, delta) returns quantity = stored
\* quantity + delta, the stored reservedQuantity and availableQuantity =
\* quantity - reservedQuantity, and the store holds these values: the
\* in-memory AdjustQuantity and the store's increment agree.
C23_OutputMatchesStore ==
    \A i \in Procs :
        (/\ started = 1
         /\ Finished(i, "adjustInventory")
         /\ proc[i].err = Nil
         /\ proc[i].out # Nil)
        => LET r == proc[i]
           IN /\ r.out.quantity = r.seen.quantity + r.arg
              /\ r.out.quantity = AdjustQuantity(r.seen, r.arg).inv.quantity
              /\ r.out.reservedQuantity = r.seen.reservedQuantity
              /\ r.out.availableQuantity
                   = r.out.quantity - r.out.reservedQuantity
              /\ \A row \in inventory :
                   row.id = r.out.id
                   => /\ row.quantity = r.out.quantity
                      /\ row.reservedQuantity = r.out.reservedQuantity

\* C24: WrapDatabaseError classifies an error by the first matching rule:
\* nil -> nil; sql.ErrNoRows -> NotFound; text containing "duplicate key"
\* or "unique constraint" -> Conflict; text containing "foreign key
\* constraint" -> InvalidInput; text containing "connection", "network",
\* "timeout" or "dial tcp" -> DatabaseConnection; anything else ->
\* DatabaseError; every non-nil input yields a non-nil coded error.
C24_Classification ==
    call.op = "WrapDatabaseError"
    => LET e == call.args.err
           has == IF e = Nil THEN {} ELSE TextHas(e.msg)
       IN IF e = Nil THEN call.out = Nil
          ELSE /\ call.out # Nil
               /\ call.out.app
               /\ call.out.code =
                    IF e.noRows THEN CodeNotFound
                    ELSE IF has \cap {"duplicate key", "unique constraint"} # {}
                    THEN CodeConflict
                    ELSE IF "foreign key constraint" \in has
                    THEN CodeInvalidInput
                    ELSE IF has \cap {"connection", "network", "timeout",
                                      "dial tcp"} # {}
                    THEN CodeDatabaseConnection
                    ELSE CodeDatabaseError

\* a text that names a duplicate key, a foreign key and a connection was
\* classified as a conflict
C24_Witness ==
    /\ call.op = "WrapDatabaseError"
    /\ call.args.err # Nil
    /\ {"duplicate key", "foreign key constraint", "connection"}
          \subseteq TextHas(call.args.err.msg)
    /\ call.out.code = CodeConflict

\* C29: WrapDatabaseError is idempotent on the code: wrapping an error it
\* has returned gives the same code and the same HTTP status.
C29_WrapIdempotent ==
    (call.op = "WrapDatabaseError" /\ call.args.inner # Nil)
    => /\ GetCode(call.out) = GetCode(call.args.err)
       /\ GetHTTPStatus(call.out) = GetHTTPStatus(call.args.err)

\* C21: every error an entity or value object returns for a validation
\* failure carries a code whose HTTP status is 4xx, and every storage
\* failure (a lost connection, a failed statement) carries a 5xx status.
C21_StatusByKind ==
    /\ (call.op \in {"NewInventory", "NewPrice", "Add", "Subtract"}
          /\ call.err # Nil)
         => GetHTTPStatus(call.err) \in 400..499
    /\ (call.op = "WrapDatabaseError"
          /\ call.args.err \in {PqConnection, PqCheckViolation})
         => GetHTTPStatus(call.out) \in 500..599

\* C22: a Product built by NewProduct has a non-empty id and a non-empty
\* name after any sequence of UpdateName / UpdatePrice; NewProduct rejects
\* an empty id with InvalidProductID and an empty name with
\* InvalidProductName; UpdateName("") fails and leaves the name unchanged,
\* UpdateName of a non-empty name sets it; UpdatePrice always succeeds and
\* changes neither id nor name.
C22_ProductContract ==
    /\ ent # Nil => (ent.id # "" /\ ent.name # "")
    /\ entLast.op = "NewProduct"
         => IF entLast.args.id = ""
            THEN ent = Nil /\ Is(entLast.err, CodeInvalidProductID)
            ELSE IF entLast.args.name = ""
            THEN ent = Nil /\ Is(entLast.err, CodeInvalidProductName)
            ELSE /\ entLast.err = Nil
                 /\ ent = [id |-> entLast.args.id,
                           name |-> entLast.args.name,
                           price |-> entLast.args.price]
    /\ entLast.op = "UpdateName"
         => /\ ent.id = entLast.before.id
            /\ ent.price = entLast.before.price
            /\ IF entLast.args.name = ""
               THEN /\ Is(entLast.err, CodeInvalidProductName)
                    /\ ent.name = entLast.before.name
               ELSE /\ entLast.err = Nil
                    /\ ent.name = entLast.args.name
    /\ entLast.op = "UpdatePrice"
         => /\ entLast.err = Nil
            /\ ent.id = entLast.before.id
            /\ ent.name = entLast.before.name
            /\ ent.price = entLast.args.price

\* UpdateName("") was refused on a product that has a name and a price
C22_Witness ==
    /\ entLast.op = "UpdateName"
    /\ entLast.args.name = ""
    /\ entLast.err # Nil
    /\ ent.name = "Gadget"
    /\ ent.price.amount > 0

\* C27: once all concurrent calls of the Update-based
\* AdjustInventoryUseCase have finished, the stored quantity of a row equals
\* its initial quantity plus the sum of the adjustments of the calls that
\* returned success.
C27_UseCaseNoLostUpdate ==
    (\A i \in Procs : proc[i].op = "adjustUseCase" => proc[i].pc = "done")
    => \A row \in inventory : row.quantity = base[row.id] + acked[row.id]

====
